---- MODULE Spec2Model ----
(***************************************************************************)
(* react-opensheetmusic: the useOSMD hook (the engine binding) and the     *)
(* SheetMusic component built on it, as a state machine.                   *)
(*                                                                         *)
(* The rendering engine (OpenSheetMusicDisplay) is an external object: the *)
(* model records the calls made on it and lets its constructor, its load   *)
(* promise and its render succeed or throw.                                *)
(*                                                                         *)
(* The repository holds two sources of the hook, src/src/hooks/useOSMD.ts  *)
(* (version 1) and src/unnamed/part_003 (version 2); they differ in the    *)
(* dependency list of the initialisation effect and in the latch after a   *)
(* failed construction.  `version` selects the one that is built.          *)
(*                                                                         *)
(* A React render pass and the effects it flushes are part of the action   *)
(* that causes them: an action is the handler, the state updates it makes, *)
(* the re-render these cause and the effects of that re-render.            *)
(***************************************************************************)
EXTENDS Integers, Sequences, FiniteSets, TLC

VARIABLES version, phase, hook, engines, ctorCalls, pending, comp, result, ghost, aux

vars == <<version, phase, hook, engines, ctorCalls, pending, comp, result, ghost, aux>>

-----------------------------------------------------------------------------
(* Bounds *)

\* consumer operations (re-renders, calls of the hook's functions) per activation
MaxOps == 2
\* re-renders of the component by its parent per activation
MaxRenders == 1
\* render passes that one action flushes
MaxFlush == 4

-----------------------------------------------------------------------------
(* Values *)

\* characters of the strings of the model; SP is a whitespace character
SP == " "

\* a React ref object and the element it holds; refNull holds null
Handles == {"refNull", "refA", "refB"}
NullC == "null"
Containers == {"divA", "divB"}
Current(h) == IF h = "refA" THEN "divA" ELSE IF h = "refB" THEN "divB" ELSE NullC

\* an engine instance is named by the container it was constructed on
NullInst == "null"

\* JavaScript values that are thrown, rejected or stored as the error state
NoError == [kind |-> "null", message |-> ""]
MkError(m) == [kind |-> "Error", message |-> m]
NotInitialized == MkError("OSMD instance not initialized")
Thrown == {MkError("Load failed"), [kind |-> "string", message |-> "String error"]}

\* file | Document | Blob | undefined, and strings as sequences of characters
Absent == [kind |-> "absent", text |-> <<>>]
Str(s) == [kind |-> "string", text |-> s]
Blob == [kind |-> "Blob", text |-> <<"x">>]
NoTitle == "undefined"
Titles == {NoTitle, "Custom Title"}

\* engine zoom in tenths: 10 is 1.0, 15 is 1.5; 0 stands for a falsy zoom
EngineZooms == {0, 20}
Scales == {10, 15}

\* the optional methods an engine instance exposes
OptionalMethods == {"renderAndScrollBack", "updateGraphic", "setOptions"}
CapSets == {{}, OptionalMethods}

-----------------------------------------------------------------------------
(* The engine *)

\* what an engine's clear throws when it throws
CleanupError == MkError("Cleanup error")

NoEngine ==
  [exists |-> FALSE, caps |-> {}, clearThrows |-> FALSE, zoom |-> 0, loadCalls |-> <<>>,
   renderCalls |-> 0, rasbCalls |-> 0, updateGraphicCalls |-> 0,
   clearCalls |-> 0, cleanupCalls |-> 0, setOptionsCalls |-> <<>>]

NewEngine(zoom, caps, clearThrows) ==
  [NoEngine EXCEPT !.exists = TRUE, !.zoom = zoom, !.caps = caps, !.clearThrows = clearThrows]

\* the outcome of `new OpenSheetMusicDisplay(container, options)`: an instance (its
\* zoom, its optional methods, whether its clear throws) or an exception
CtorOutcomes ==
  {[ok |-> TRUE, thrown |-> NoError, zoom |-> z, caps |-> c, clearThrows |-> ct] :
     z \in EngineZooms, c \in CapSets, ct \in BOOLEAN}
  \cup {[ok |-> FALSE, thrown |-> t, zoom |-> 0, caps |-> {}, clearThrows |-> FALSE] : t \in Thrown}

-----------------------------------------------------------------------------
(* useOSMD: state and initialisation effect *)

HookInit ==
  [osmd |-> NullInst, isLoading |-> FALSE, error |-> NoError, zoomValue |-> 10,
   initRef |-> FALSE, osmdRef |-> NullInst,
   containerRef |-> "refNull", cleanup |-> FALSE]

\* the part of the hook that is React state: a change of it causes a re-render
HookState(h) == <<h.osmd, h.isLoading, h.error, h.zoomValue>>

\* mutant: the caught value is stored and raised as it is
Normalise_Raw(err, msg) == err

\* err instanceof Error ? err : new Error(msg)
Normalise(err, msg) == IF err.kind = "Error" THEN err ELSE MkError(msg)

\* mutant: the effect has no latch
SkipInit_NoLatch(current, initRef) == current = NullC

\* `if (!containerRef.current || initRef.current) return;`
SkipInit(current, initRef) == current = NullC \/ initRef

\* initRef after a construction that threw
LatchAfterFailure(v) == v = 2

\* mutant: the cleanup calls clear() outside a try block
RunCleanup_NoCatch(w) ==
  IF w.hook.cleanup /\ w.hook.osmdRef # NullInst
  THEN [w EXCEPT !.engines[w.hook.osmdRef].clearCalls = @ + 1,
                 !.engines[w.hook.osmdRef].cleanupCalls = @ + 1, !.hook.cleanup = FALSE,
                 !.result = IF w.engines[w.hook.osmdRef].clearThrows
                            THEN [op |-> w.result.op, raised |-> CleanupError] ELSE @]
  ELSE [w EXCEPT !.hook.cleanup = FALSE]

\* the cleanup the effect returned: clear() on the instance in a try block whose catch
\* is empty, so the outcome is the same whether the engine's clear throws or not
RunCleanup(w) ==
  IF w.hook.cleanup /\ w.hook.osmdRef # NullInst
  THEN [w EXCEPT !.engines[w.hook.osmdRef].clearCalls = @ + 1,
                 !.engines[w.hook.osmdRef].cleanupCalls = @ + 1, !.hook.cleanup = FALSE]
  ELSE [w EXCEPT !.hook.cleanup = FALSE]

\* the body of the initialisation effect
InitEffectBody(w, ctor) ==
  LET c == Current(w.hook.containerRef) IN
  IF SkipInit(c, w.hook.initRef) THEN w
  ELSE LET w1 == [w EXCEPT !.ctorCalls = Append(@, [on |-> c, thrown |-> ctor.thrown]),
                            !.hook.cleanup = TRUE] IN
       IF ctor.ok
       THEN [w1 EXCEPT !.engines[c] = NewEngine(ctor.zoom, ctor.caps, ctor.clearThrows),
                       !.hook.osmdRef = c,
                       !.hook.osmd = c,
                       !.hook.zoomValue = IF ctor.zoom = 0 THEN 10 ELSE ctor.zoom,
                       !.hook.initRef = TRUE]
       ELSE [w1 EXCEPT !.hook.error = Normalise(ctor.thrown, "Failed to initialize OSMD"),
                       !.hook.initRef = LatchAfterFailure(w.version) \/ @]

\* the dependency list of the effect: [containerRef] or [containerRef, initialOptions]
InitDepsChanged(v, oldHandle, newHandle, newOptions) ==
  IF v = 1 THEN newHandle # oldHandle ELSE (newHandle # oldHandle \/ newOptions)

\* one render of the hook with the given arguments, and the effect it flushes
HookRender(w, handle, newOptions, ctor) ==
  IF InitDepsChanged(w.version, w.hook.containerRef, handle, newOptions)
  THEN InitEffectBody(RunCleanup([w EXCEPT !.hook.containerRef = handle]), ctor)
  ELSE w

\* whether that render constructs an engine
Constructs(w, handle, newOptions) ==
  /\ InitDepsChanged(w.version, w.hook.containerRef, handle, newOptions)
  /\ ~SkipInit(Current(handle), w.hook.initRef)

\* the first render of the hook
HookMount(w, handle, ctor) ==
  InitEffectBody([w EXCEPT !.hook.containerRef = handle], ctor)

\* unmount runs the cleanup of the last run of the effect
HookUnmount(w) == RunCleanup(w)

-----------------------------------------------------------------------------
(* useOSMD: operations *)

Returned(op) == [op |-> op, raised |-> NoError]
Raised(op, err) == [op |-> op, raised |-> err]

\* who awaits a load: the user of the hook, or the component's loadMusic with
\* the onLoad and onError of the render that started it
User == [by |-> "user", onLoad |-> "absent", onError |-> "absent"]
LoadMusicCaller(onLoad, onError) == [by |-> "component", onLoad |-> onLoad, onError |-> onError]

\* load(file, title) up to its await: the engine's load is issued
LoadStart(w, src, title, caller) ==
  LET i == w.hook.osmdRef IN
  IF i = NullInst THEN [w EXCEPT !.result = Raised("load", NotInitialized)]
  ELSE [w EXCEPT !.hook.isLoading = TRUE,
                 !.hook.error = NoError,
                 !.engines[i].loadCalls = Append(@, [src |-> src, title |-> title]),
                 !.pending = @ \cup {[inst |-> i, id |-> Len(w.engines[i].loadCalls) + 1,
                                      caller |-> caller]},
                 !.result = [op |-> "load", raised |-> NoError]]

\* mutant: isLoading is reset at the end of the try block, not in a finally block
LoadFinish_NoFinally(w, p, outcome) ==
  LET i == w.hook.osmdRef
      w1 == [w EXCEPT !.pending = @ \ {p}]
      w2 == IF outcome.resolved THEN [w1 EXCEPT !.engines[i].renderCalls = @ + 1] ELSE w1
      failed == ~outcome.resolved \/ outcome.renderThrows
      err == Normalise(outcome.thrown, "Failed to load music")
  IN IF failed
     THEN [w2 EXCEPT !.hook.error = err, !.result = Raised("loadSettled", err)]
     ELSE [w2 EXCEPT !.hook.isLoading = FALSE, !.result = Returned("loadSettled")]

\* mutant: render is invoked however the engine's promise settled
LoadFinish_RenderAlways(w, p, outcome) ==
  LET i == w.hook.osmdRef
      w1 == [w EXCEPT !.pending = @ \ {p}]
      w2 == [w1 EXCEPT !.engines[i].renderCalls = @ + 1]
      failed == ~outcome.resolved \/ outcome.renderThrows
      err == Normalise(outcome.thrown, "Failed to load music")
  IN IF failed
     THEN [w2 EXCEPT !.hook.error = err, !.hook.isLoading = FALSE,
                     !.result = Raised("loadSettled", err)]
     ELSE [w2 EXCEPT !.hook.isLoading = FALSE, !.result = Returned("loadSettled")]

\* load(file, title) after its await: the engine's promise settled with `outcome`
LoadFinish(w, p, outcome) ==
  LET i == w.hook.osmdRef
      w1 == [w EXCEPT !.pending = @ \ {p}]
      w2 == IF outcome.resolved THEN [w1 EXCEPT !.engines[i].renderCalls = @ + 1] ELSE w1
      failed == ~outcome.resolved \/ outcome.renderThrows
      err == Normalise(outcome.thrown, "Failed to load music")
  IN IF failed
     THEN [w2 EXCEPT !.hook.error = err, !.hook.isLoading = FALSE,
                     !.result = Raised("loadSettled", err)]
     ELSE [w2 EXCEPT !.hook.isLoading = FALSE, !.result = Returned("loadSettled")]

\* how the engine's load promise and the render after it end
LoadOutcomes ==
  {[resolved |-> TRUE, renderThrows |-> FALSE, thrown |-> NoError]}
  \cup {[resolved |-> FALSE, renderThrows |-> FALSE, thrown |-> t] : t \in Thrown}
  \cup {[resolved |-> TRUE, renderThrows |-> TRUE, thrown |-> t] : t \in Thrown}

HookRenderOp(w) ==
  LET i == w.hook.osmdRef IN
  IF i = NullInst THEN [w EXCEPT !.result = Raised("render", NotInitialized)]
  ELSE [w EXCEPT !.engines[i].renderCalls = @ + 1, !.result = Returned("render")]

\* mutant: render is invoked as well when the engine has renderAndScrollBack
HookRenderAndScrollBack_AndRender(w) ==
  LET i == w.hook.osmdRef IN
  IF i = NullInst THEN [w EXCEPT !.result = Raised("renderAndScrollBack", NotInitialized)]
  ELSE IF "renderAndScrollBack" \in w.engines[i].caps
       THEN [w EXCEPT !.engines[i].rasbCalls = @ + 1, !.engines[i].renderCalls = @ + 1,
                      !.result = Returned("renderAndScrollBack")]
       ELSE [w EXCEPT !.engines[i].renderCalls = @ + 1, !.result = Returned("renderAndScrollBack")]

HookRenderAndScrollBack(w) ==
  LET i == w.hook.osmdRef IN
  IF i = NullInst THEN [w EXCEPT !.result = Raised("renderAndScrollBack", NotInitialized)]
  ELSE IF "renderAndScrollBack" \in w.engines[i].caps
       THEN [w EXCEPT !.engines[i].rasbCalls = @ + 1, !.result = Returned("renderAndScrollBack")]
       ELSE [w EXCEPT !.engines[i].renderCalls = @ + 1, !.result = Returned("renderAndScrollBack")]

HookUpdateGraphic(w) ==
  LET i == w.hook.osmdRef IN
  IF i = NullInst THEN [w EXCEPT !.result = Raised("updateGraphic", NotInitialized)]
  ELSE IF "updateGraphic" \in w.engines[i].caps
       THEN [w EXCEPT !.engines[i].updateGraphicCalls = @ + 1, !.result = Returned("updateGraphic")]
       ELSE [w EXCEPT !.result = Returned("updateGraphic")]

\* mutant: clear() leaves the error state alone
HookClear_KeepsError(w) ==
  LET i == w.hook.osmdRef IN
  IF i = NullInst THEN [w EXCEPT !.result = Returned("clear")]
  ELSE IF w.engines[i].clearThrows
       THEN [w EXCEPT !.engines[i].clearCalls = @ + 1, !.result = Raised("clear", CleanupError)]
       ELSE [w EXCEPT !.engines[i].clearCalls = @ + 1, !.result = Returned("clear")]

\* clear(): `osmdRef.current.clear(); setError(null);`, an exception of the engine's
\* clear leaves the function before setError
HookClear(w) ==
  LET i == w.hook.osmdRef IN
  IF i = NullInst THEN [w EXCEPT !.result = Returned("clear")]
  ELSE IF w.engines[i].clearThrows
       THEN [w EXCEPT !.engines[i].clearCalls = @ + 1, !.result = Raised("clear", CleanupError)]
       ELSE [w EXCEPT !.engines[i].clearCalls = @ + 1, !.hook.error = NoError,
                      !.result = Returned("clear")]

\* the options objects setOptions is called with
DynamicOptions == [drawTitle |-> "false", backend |-> "canvas"]
SetOptionsArgs == {DynamicOptions, [backend |-> "svg"], [k \in {} |-> ""]}

\* the return of setOptions(options), with the argument of the call
SetOptionsReturned(options) == [op |-> "setOptions", raised |-> NoError, arg |-> options]

\* mutant: setOptions without an instance does nothing, as clear does
HookSetOptions_Silent(w, options) ==
  LET i == w.hook.osmdRef IN
  IF i = NullInst THEN [w EXCEPT !.result = Returned("setOptions")]
  ELSE IF "setOptions" \in w.engines[i].caps
       THEN [w EXCEPT !.engines[i].setOptionsCalls = Append(@, options),
                      !.result = SetOptionsReturned(options)]
       ELSE [w EXCEPT !.result = SetOptionsReturned(options)]

\* mutant: setOptions is invoked without the typeof test
HookSetOptions_NoTypeofTest(w, options) ==
  LET i == w.hook.osmdRef IN
  IF i = NullInst THEN [w EXCEPT !.result = Raised("setOptions", NotInitialized)]
  ELSE IF "setOptions" \in w.engines[i].caps
       THEN [w EXCEPT !.engines[i].setOptionsCalls = Append(@, options),
                      !.result = SetOptionsReturned(options)]
       ELSE [w EXCEPT !.result = Raised("setOptions", MkError("setOptions is not a function"))]

\* setOptions(options): the engine's setOptions is given the same object
HookSetOptions(w, options) ==
  LET i == w.hook.osmdRef IN
  IF i = NullInst THEN [w EXCEPT !.result = Raised("setOptions", NotInitialized)]
  ELSE IF "setOptions" \in w.engines[i].caps
       THEN [w EXCEPT !.engines[i].setOptionsCalls = Append(@, options),
                      !.result = SetOptionsReturned(options)]
       ELSE [w EXCEPT !.result = SetOptionsReturned(options)]

\* the return of setZoom(scale), with the argument of the call
ZoomReturned(scale) == [op |-> "setZoom", raised |-> NoError, arg |-> scale]

\* mutant: setZoom does not mirror the scale into the zoom state
HookSetZoom_NoMirror(w, scale) ==
  LET i == w.hook.osmdRef IN
  IF i = NullInst THEN [w EXCEPT !.result = ZoomReturned(scale)]
  ELSE [w EXCEPT !.engines[i].zoom = scale, !.engines[i].renderCalls = @ + 1,
                 !.result = ZoomReturned(scale)]

HookSetZoom(w, scale) ==
  LET i == w.hook.osmdRef IN
  IF i = NullInst THEN [w EXCEPT !.result = ZoomReturned(scale)]
  ELSE [w EXCEPT !.engines[i].zoom = scale, !.engines[i].renderCalls = @ + 1,
                 !.hook.zoomValue = scale, !.result = ZoomReturned(scale)]

-----------------------------------------------------------------------------
(* SheetMusic *)

\* a JavaScript value in a condition
Truthy(v) == v.kind # "absent" /\ ~(v.kind = "string" /\ v.text = <<>>)

\* String.prototype.trim
RECURSIVE TrimLeft(_)
TrimLeft(s) == IF s # <<>> /\ Head(s) = SP THEN TrimLeft(Tail(s)) ELSE s
RECURSIVE TrimRight(_)
TrimRight(s) == IF s # <<>> /\ s[Len(s)] = SP THEN TrimRight(SubSeq(s, 1, Len(s) - 1)) ELSE s
Trim(s) == TrimRight(TrimLeft(s))

\* new DOMParser().parseFromString(musicXML, 'text/xml')
ParseXML(text) == [kind |-> "Document", text |-> text]

NoCallback == "absent"

CompInit ==
  [file |-> Absent, musicXML |-> Absent, onLoad |-> NoCallback, onError |-> NoCallback,
   prevFileRef |-> Absent, prevMusicXMLRef |-> Absent,
   loadDeps |-> <<>>, errorDeps |-> <<>>,
   onLoadCalls |-> <<>>, onErrorCalls |-> <<>>]

\* `onError?.(error)`
CallOnError(w, fn, err, from) ==
  IF fn = NoCallback THEN w
  ELSE [w EXCEPT !.comp.onErrorCalls = Append(@, [arg |-> err, from |-> from])]

\* `onLoad?.(osmd)`
CallOnLoad(w, fn, inst) ==
  IF fn = NoCallback THEN w
  ELSE [w EXCEPT !.comp.onLoadCalls = Append(@, [arg |-> inst])]

\* `await load(source)` up to the await; a load that throws at once goes to the catch
AwaitLoad(w, src) ==
  LET w1 == LoadStart(w, src, NoTitle, LoadMusicCaller(w.comp.onLoad, w.comp.onError)) IN
  IF w1.result.raised # NoError
  THEN CallOnError(w1, w.comp.onError, Normalise(w1.result.raised, "Failed to load music"), "catch")
  ELSE w1

\* mutant: file before musicXML
LoadMusic_FileFirst(w) ==
  LET c == w.comp IN
  IF Truthy(c.file)
  THEN AwaitLoad([w EXCEPT !.comp.prevFileRef = c.file], c.file)
  ELSE IF Truthy(c.musicXML)
       THEN IF Trim(c.musicXML.text) = <<>> THEN w
            ELSE AwaitLoad([w EXCEPT !.comp.prevMusicXMLRef = c.musicXML], ParseXML(c.musicXML.text))
       ELSE w

\* mutant: a blank musicXML falls through to the file, and the file is tested for
\* undefined only
LoadMusic_AnyFile(w) ==
  LET c == w.comp IN
  IF Truthy(c.musicXML) /\ Trim(c.musicXML.text) # <<>>
  THEN AwaitLoad([w EXCEPT !.comp.prevMusicXMLRef = c.musicXML], ParseXML(c.musicXML.text))
  ELSE IF c.file # Absent
       THEN AwaitLoad([w EXCEPT !.comp.prevFileRef = c.file], c.file)
       ELSE w

\* the source loadMusic picks: musicXML before file
LoadMusic(w) ==
  LET c == w.comp IN
  IF Truthy(c.musicXML)
  THEN IF Trim(c.musicXML.text) = <<>> THEN w
       ELSE AwaitLoad([w EXCEPT !.comp.prevMusicXMLRef = c.musicXML], ParseXML(c.musicXML.text))
  ELSE IF Truthy(c.file)
       THEN IF c.file = Str(<<>>) THEN w
            ELSE AwaitLoad([w EXCEPT !.comp.prevFileRef = c.file], c.file)
       ELSE w

\* `if (!file && !musicXML) return;`
NothingToLoad(file, musicXML) == ~Truthy(file) /\ ~Truthy(musicXML)

\* mutant: only a change of musicXML triggers a load
LoadEffect_XmlOnly(w, osmd) ==
  LET c == w.comp
      xmlChanged == c.musicXML # c.prevMusicXMLRef
  IN IF osmd = NullInst THEN w
     ELSE IF ~xmlChanged THEN w
     ELSE IF NothingToLoad(c.file, c.musicXML) THEN w
     ELSE LoadMusic(w)

\* mutant: a changed prop is loaded without a test for emptiness
LoadEffect_NoEmptyCheck(w, osmd) ==
  LET c == w.comp
      fileChanged == c.file # c.prevFileRef
      xmlChanged == c.musicXML # c.prevMusicXMLRef
  IN IF osmd = NullInst THEN w
     ELSE IF ~fileChanged /\ ~xmlChanged THEN w
     ELSE IF c.musicXML # Absent
          THEN AwaitLoad([w EXCEPT !.comp.prevMusicXMLRef = c.musicXML], ParseXML(c.musicXML.text))
          ELSE AwaitLoad([w EXCEPT !.comp.prevFileRef = c.file], c.file)

\* the body of the load effect; osmd is the state of the render the effect belongs to
LoadEffect(w, osmd) ==
  LET c == w.comp
      fileChanged == c.file # c.prevFileRef
      xmlChanged == c.musicXML # c.prevMusicXMLRef
  IN IF osmd = NullInst THEN w
     ELSE IF ~fileChanged /\ ~xmlChanged THEN w
     ELSE IF NothingToLoad(c.file, c.musicXML) THEN w
     ELSE LoadMusic(w)

\* mutant: the component has no effect on the error state
ErrorEffect_Off(w, error) == w

\* the body of the effect that observes the error state
ErrorEffect(w, error) ==
  IF error # NoError /\ w.comp.onError # NoCallback
  THEN CallOnError(w, w.comp.onError, error, "effect")
  ELSE w

\* the component's own ref, attached to its div before the effects run
CompHandle == "refA"

\* one render of the component and the effects it flushes, in the order of their
\* declaration; the effects see the state of that render
CompRender(w, first, ctor) ==
  LET osmd == w.hook.osmd
      error == w.hook.error
      loadDeps == <<osmd, w.comp.file, w.comp.musicXML, w.comp.onLoad, w.comp.onError>>
      errorDeps == <<error, w.comp.onError>>
      w1 == IF first THEN HookMount(w, CompHandle, ctor) ELSE HookRender(w, CompHandle, TRUE, ctor)
      w2 == IF loadDeps # w.comp.loadDeps THEN LoadEffect(w1, osmd) ELSE w1
      w3 == IF errorDeps # w.comp.errorDeps THEN ErrorEffect(w2, error) ELSE w2
  IN [w3 EXCEPT !.comp.loadDeps = loadDeps, !.comp.errorDeps = errorDeps]

\* a render, and the re-renders that the state updates of its effects cause
RECURSIVE CompFlush(_, _, _, _)
CompFlush(w, first, ctor, fuel) ==
  LET w1 == CompRender(w, first, ctor) IN
  IF fuel = 0 \/ HookState(w1.hook) = HookState(w.hook) THEN w1
  ELSE CompFlush(w1, FALSE, ctor, fuel - 1)

\* the re-render after a handler updated the state
CompRerenderIfChanged(w0, w1, ctor) ==
  IF HookState(w1.hook) = HookState(w0.hook) THEN w1 ELSE CompFlush(w1, FALSE, ctor, MaxFlush)

\* mutant: onLoad is called in a finally block
LoadMusicFinish_OnLoadAlways(w, p, outcome) ==
  LET w1 == LoadFinish(w, p, outcome)
      w2 == CallOnLoad(w1, p.caller.onLoad, p.inst) IN
  IF w1.result.raised = NoError THEN w2
  ELSE CallOnError(w2, p.caller.onError, Normalise(w1.result.raised, "Failed to load music"), "catch")

\* mutant: loadMusic has no catch block
LoadMusicFinish_NoCatch(w, p, outcome) ==
  LET w1 == LoadFinish(w, p, outcome) IN
  IF w1.result.raised = NoError THEN CallOnLoad(w1, p.caller.onLoad, p.inst) ELSE w1

\* loadMusic after `await load(source)`
LoadMusicFinish(w, p, outcome) ==
  LET w1 == LoadFinish(w, p, outcome) IN
  IF w1.result.raised = NoError
  THEN CallOnLoad(w1, p.caller.onLoad, p.inst)
  ELSE CallOnError(w1, p.caller.onError, Normalise(w1.result.raised, "Failed to load music"), "catch")

-----------------------------------------------------------------------------
(* The state as one record, for the operators above *)

World ==
  [version |-> version, hook |-> hook, engines |-> engines, ctorCalls |-> ctorCalls,
   pending |-> pending, comp |-> comp, result |-> result]

Becomes(w) ==
  \E n \in {w} :
    /\ hook' = n.hook
    /\ engines' = n.engines
    /\ ctorCalls' = n.ctorCalls
    /\ pending' = n.pending
    /\ comp' = n.comp
    /\ result' = n.result
    /\ UNCHANGED <<version, aux>>

\* the constructor outcomes to consider: all of them when the constructor is called
CtorChoices(called) == IF called THEN CtorOutcomes ELSE {CHOOSE c \in CtorOutcomes : c.ok}

\* the re-render that a change of the hook's state causes, in a consumer that
\* calls the hook directly: the options argument may be a new object
HookRerenderIfChanged(w0, w1, newOptions) ==
  IF HookState(w1.hook) = HookState(w0.hook) THEN w1
  ELSE HookRender(w1, w1.hook.containerRef, newOptions,
                  CHOOSE c \in CtorChoices(Constructs(w1, w1.hook.containerRef, newOptions)) : TRUE)

\* history the properties refer to: the number of consumer operations so far, whether
\* the container handle ever changed, whether every render so far had neither a
\* file nor a musicXML, how the engine's load that settled last ended, and whether
\* a load was issued while another had not settled
NotSettled == [resolved |-> FALSE, renderThrows |-> FALSE, thrown |-> NoError]
\* `aux` holds the state of the parts that are specified on their own (the cursor facet,
\* the auxiliary hooks); it is unused by the binding and the component below
NoAux == [kind |-> "none"]

GhostInit ==
  [ops |-> 0, handleChanged |-> FALSE, allEmpty |-> TRUE, settled |-> NotSettled,
   overlapped |-> FALSE]

Init ==
  /\ version \in {1, 2}
  /\ phase = "new"
  /\ hook = HookInit
  /\ engines = [c \in Containers |-> NoEngine]
  /\ ctorCalls = <<>>
  /\ pending = {}
  /\ comp = CompInit
  /\ result = Returned("none")
  /\ ghost = GhostInit
  /\ aux = NoAux

-----------------------------------------------------------------------------
(* A consumer that calls the hook directly (renderHook(() => useOSMD(ref, options))) *)

Mount ==
  /\ phase = "new"
  /\ \E h \in Handles, newOptions \in BOOLEAN :
     \E ctor \in CtorChoices(Current(h) # NullC) :
       LET w1 == HookMount([World EXCEPT !.result = Returned("mount")], h, ctor)
       IN Becomes(HookRerenderIfChanged(World, w1, newOptions))
  /\ phase' = "mounted"
  /\ UNCHANGED ghost

Rerender ==
  /\ phase = "mounted"
  /\ ghost.ops < MaxOps
  /\ \E h \in Handles, newOptions \in BOOLEAN, newOptions2 \in BOOLEAN :
     \E ctor \in CtorChoices(Constructs(World, h, newOptions)) :
       LET w1 == HookRender([World EXCEPT !.result = Returned("rerender")], h, newOptions, ctor)
       IN /\ Becomes(HookRerenderIfChanged(World, w1, newOptions2))
          /\ ghost' = [ghost EXCEPT !.ops = @ + 1,
                                    !.handleChanged = @ \/ h # hook.containerRef]
  /\ UNCHANGED phase

Unmount ==
  /\ phase = "mounted"
  /\ Becomes(HookUnmount([World EXCEPT !.result = Returned("unmount")]))
  /\ phase' = "gone"
  /\ UNCHANGED ghost

\* a call of one of the hook's synchronous functions, and the re-render it causes
Call(w1) ==
  /\ phase = "mounted"
  /\ ghost.ops < MaxOps
  /\ \E newOptions \in BOOLEAN : Becomes(HookRerenderIfChanged(World, w1, newOptions))
  /\ ghost' = [ghost EXCEPT !.ops = @ + 1,
                            !.overlapped = @ \/ (w1.pending # pending /\ pending # {})]
  /\ UNCHANGED phase

CallLoad ==
  \E src \in {Str(<<"a">>), Blob}, title \in Titles : Call(LoadStart(World, src, title, User))

LoadSettles ==
  /\ phase \in {"mounted", "gone"}
  /\ \E p \in pending, outcome \in LoadOutcomes, newOptions \in BOOLEAN :
       /\ p.caller = User
       /\ Becomes(IF phase = "mounted"
                  THEN HookRerenderIfChanged(World, LoadFinish(World, p, outcome), newOptions)
                  ELSE LoadFinish(World, p, outcome))
       /\ ghost' = [ghost EXCEPT !.settled = outcome]
  /\ UNCHANGED phase

CallRender == Call(HookRenderOp(World))

CallRenderAndScrollBack == Call(HookRenderAndScrollBack(World))

CallUpdateGraphic == Call(HookUpdateGraphic(World))

CallClear == Call(HookClear(World))

CallSetOptions == Call(HookSetOptions(World, DynamicOptions))

CallSetZoom == \E scale \in Scales : Call(HookSetZoom(World, scale))

NextHook ==
  \/ Mount
  \/ Rerender
  \/ Unmount
  \/ CallLoad
  \/ LoadSettles
  \/ CallRender
  \/ CallRenderAndScrollBack
  \/ CallUpdateGraphic
  \/ CallClear
  \/ CallSetOptions
  \/ CallSetZoom

SpecHook == Init /\ [][NextHook]_vars

-----------------------------------------------------------------------------
(* A consumer that renders <SheetMusic file musicXML onLoad onError ... /> *)

FileProps == {Absent, Str(<<>>), Str(<<"a">>), Str(<<"b">>)}
XmlProps == {Absent, Str(<<>>), Str(<<SP>>), Str(<<"x">>), Str(<<"y">>)}
\* file and musicXML of one render: file only, musicXML only, or both
SourceProps ==
  {<<f, Absent>> : f \in FileProps} \cup {<<Absent, x>> : x \in XmlProps}
  \cup {<<Str(<<>>), Str(<<>>)>>, <<Str(<<"a">>), Str(<<>>)>>, <<Str(<<"a">>), Str(<<SP>>)>>,
         <<Str(<<"a">>), Str(<<"x">>)>>, <<Str(<<"a">>), Str(<<"y">>)>>,
         <<Str(<<>>), Str(<<"x">>)>>, <<Str(<<>>), Str(<<SP>>)>>}
\* absent or the empty string
EmptyProps == {Absent, Str(<<>>)}
\* onLoad and onError: absent, supplied, supplied with a new identity
CallbackProps ==
  {<<NoCallback, NoCallback>>, <<"onLoad1", "onError1">>, <<"onLoad2", "onError1">>,
   <<"onLoad1", "onError2">>}
\* the engines the component is run against, and how their loads end
CompCtorOutcomes ==
  {c \in CtorOutcomes : c.ok => (c.zoom = 20 /\ c.caps = OptionalMethods /\ ~c.clearThrows)}
CompLoadOutcomes == {o \in LoadOutcomes : ~o.renderThrows}

WithProps(w, f, x, ol, oe) ==
  [w EXCEPT !.comp.file = f, !.comp.musicXML = x, !.comp.onLoad = ol, !.comp.onError = oe]

CompMount ==
  /\ phase = "new"
  /\ \E src \in SourceProps, cb \in CallbackProps, ctor \in CompCtorOutcomes :
       /\ Becomes(CompFlush(WithProps([World EXCEPT !.result = Returned("mount")],
                                      src[1], src[2], cb[1], cb[2]),
                            TRUE, ctor, MaxFlush))
       /\ ghost' = [ghost EXCEPT !.allEmpty = src[1] \in EmptyProps /\ src[2] \in EmptyProps]
  /\ phase' = "mounted"

\* a re-render by the parent; className, style and options are no state of the model:
\* a re-render that changes only them is one with the same four props
CompRerender ==
  /\ phase = "mounted"
  /\ ghost.ops < MaxRenders
  /\ \E src \in SourceProps, cb \in CallbackProps :
       /\ Becomes(CompFlush(WithProps([World EXCEPT !.result = Returned("rerender")],
                                      src[1], src[2], cb[1], cb[2]),
                            FALSE, CHOOSE c \in CtorOutcomes : c.ok, MaxFlush))
       /\ ghost' = [ghost EXCEPT !.ops = @ + 1,
                                 !.allEmpty = @ /\ src[1] \in EmptyProps /\ src[2] \in EmptyProps]
  /\ UNCHANGED phase

CompUnmount ==
  /\ phase = "mounted"
  /\ Becomes(HookUnmount([World EXCEPT !.result = Returned("unmount")]))
  /\ phase' = "gone"
  /\ UNCHANGED ghost

CompLoadSettles ==
  /\ phase \in {"mounted", "gone"}
  /\ \E p \in pending, outcome \in CompLoadOutcomes :
       /\ p.caller.by = "component"
       /\ Becomes(IF phase = "mounted"
                  THEN CompRerenderIfChanged(World, LoadMusicFinish(World, p, outcome),
                                             CHOOSE c \in CtorOutcomes : c.ok)
                  ELSE LoadMusicFinish(World, p, outcome))
       /\ ghost' = [ghost EXCEPT !.settled = outcome]
  /\ UNCHANGED phase

NextComp ==
  \/ CompMount
  \/ CompRerender
  \/ CompUnmount
  \/ CompLoadSettles

SpecComp == Init /\ [][NextComp]_vars

-----------------------------------------------------------------------------
(* Properties of the component, under SpecComp *)

\* every engine load call of the activation, in the order of the calls
EngineLoads == engines["divA"].loadCalls \o engines["divB"].loadCalls

LoadCall(src) == [src |-> src, title |-> NoTitle]

\* the step is a re-render of the component by its parent
IsRerender == ghost'.ops = ghost.ops + 1

\* the step is the first render of the component
IsMount == phase = "new" /\ phase' = "mounted"

\* C1: once the component has submitted a source to the engine, a re-render whose file
\* and musicXML are both identical to those of the previous render causes no further
\* engine load call, whatever else changed and whatever the earlier props were.
C1_SameSourceNeverReloads ==
  [][(IsRerender /\ EngineLoads # <<>>
        /\ comp'.file = comp.file /\ comp'.musicXML = comp.musicXML)
      => EngineLoads' = EngineLoads]_vars

\* C2 (as stated): with file only (or musicXML only), each re-render that changes the
\* prop to a different non-empty value causes exactly one additional engine load call,
\* issued with the new value.
C2_ChangeLoadsOnce ==
  [][/\ (IsRerender /\ comp.musicXML = Absent /\ comp'.musicXML = Absent
           /\ comp'.file # comp.file /\ comp'.file \notin EmptyProps)
        => EngineLoads' = Append(EngineLoads, LoadCall(comp'.file))
     /\ (IsRerender /\ comp.file = Absent /\ comp'.file = Absent
           /\ comp'.musicXML # comp.musicXML /\ comp'.musicXML \notin EmptyProps)
        => EngineLoads' = Append(EngineLoads, LoadCall(ParseXML(comp'.musicXML.text)))]_vars

\* whether a string has a character that is not whitespace
HasContent(v) == \E i \in DOMAIN v.text : v.text[i] # SP

\* C2 (amended): when the engine instance exists, with file only (or musicXML only),
\* each re-render that changes the prop to a value that is non-empty (for musicXML:
\* has non-whitespace content) and differs from the value last submitted to the engine
\* causes exactly one additional engine load call, issued with the new value (for
\* musicXML: with the Document parsed from it).
C2_ChangeLoadsOnceAmended ==
  [][/\ (IsRerender /\ hook.osmd # NullInst
           /\ comp.musicXML = Absent /\ comp'.musicXML = Absent
           /\ comp'.file # comp.file /\ comp'.file \notin EmptyProps
           /\ comp'.file # comp.prevFileRef)
        => EngineLoads' = Append(EngineLoads, LoadCall(comp'.file))
     /\ (IsRerender /\ hook.osmd # NullInst
           /\ comp.file = Absent /\ comp'.file = Absent
           /\ comp'.musicXML # comp.musicXML /\ HasContent(comp'.musicXML)
           /\ comp'.musicXML # comp.prevMusicXMLRef)
        => EngineLoads' = Append(EngineLoads, LoadCall(ParseXML(comp'.musicXML.text)))]_vars

\* file "a" followed by file "b": two load calls, the second with "b"
C2_Witness ==
  /\ ghost.ops = 1 /\ comp.musicXML = Absent /\ comp.file = Str(<<"b">>)
  /\ EngineLoads = <<LoadCall(Str(<<"a">>)), LoadCall(Str(<<"b">>))>>

\* C3: whenever the component triggers a load while a non-empty musicXML is supplied,
\* the engine's load receives the Document parsed from that musicXML, never the raw
\* string and never the file, even when a file is supplied too; a non-empty file
\* supplied without musicXML is passed to the engine's load unchanged.
C3_SourceOfLoad ==
  [][EngineLoads' # EngineLoads
      => /\ Len(EngineLoads') = Len(EngineLoads) + 1
         /\ SubSeq(EngineLoads', 1, Len(EngineLoads)) = EngineLoads
         /\ LET call == EngineLoads'[Len(EngineLoads')] IN
            /\ comp'.musicXML \notin EmptyProps
                 => /\ call.src.kind = "Document"
                    /\ call.src.text = comp'.musicXML.text
                    /\ call.src # comp'.musicXML /\ call.src # comp'.file
            /\ (comp'.musicXML \in EmptyProps /\ comp'.file \notin EmptyProps)
                 => call.src = comp'.file]_vars

\* a load triggered with both props supplied received the parsed musicXML
C3_Witness ==
  /\ comp.file = Str(<<"a">>) /\ comp.musicXML = Str(<<"x">>)
  /\ EngineLoads = <<LoadCall([kind |-> "Document", text |-> <<"x">>])>>

\* C4: if in every render file is absent or the empty string and musicXML is absent
\* or the empty string, the component never calls the engine's load.
C4_NothingSuppliedNeverLoads == ghost.allEmpty => EngineLoads = <<>>

\* an engine exists and the component was re-rendered, with empty strings, without a load
C4_Witness ==
  /\ phase = "mounted" /\ ghost.allEmpty /\ ghost.ops >= 1 /\ hook.osmd # NullInst
  /\ comp.file = Str(<<>>) /\ comp.musicXML = Str(<<>>) /\ EngineLoads = <<>>

\* the component right after its first render, no load settled yet
JustMounted == phase = "mounted" /\ ghost.ops = 0 /\ ghost.settled = NotSettled

-----------------------------------------------------------------------------
(* Properties of the hook, under SpecHook *)

\* C6: for every load call on an initialized binding, isLoading is true and error is
\* null once the engine's load is issued, isLoading is false once the engine's load
\* has settled, on success and on failure alike, and as long as an engine's load has
\* not settled isLoading stays true.
C6_LoadingBracketsTheLoad ==
  /\ (result.op = "load" /\ result.raised = NoError) => (hook.isLoading /\ hook.error = NoError)
  /\ result.op = "loadSettled" => ~hook.isLoading
  /\ pending # {} => hook.isLoading

\* C7: isLoading = true implies that a load call has been issued and has not settled.
C7_LoadingOnlyInFlight == hook.isLoading => pending # {}

\* two load calls overlap and isLoading is true
C7_Witness == hook.isLoading /\ Cardinality(pending) = 2

\* C8: when the engine's load rejects, the failure is stored in the error state and
\* raised to the caller as the same error: a rejected Error as it is, any other
\* rejected value as an Error with message "Failed to load music".
C8_LoadFailureStoredAndRaised ==
  (result.op = "loadSettled" /\ ~ghost.settled.resolved)
    => LET v == ghost.settled.thrown
           e == IF v.kind = "Error" THEN v
                ELSE [kind |-> "Error", message |-> "Failed to load music"]
       IN hook.error = e /\ result.raised = e

\* the engine's load rejected with a string and the generic Error is stored and raised
C8_Witness ==
  /\ result.op = "loadSettled" /\ ~ghost.settled.resolved
  /\ ghost.settled.thrown.kind = "string"
  /\ hook.error = MkError("Failed to load music") /\ result.raised = hook.error

\* the operations that need an engine instance
NeedInstance == {"load", "render", "renderAndScrollBack", "updateGraphic", "setOptions"}

\* C9: when no engine instance exists, each of load, render, renderAndScrollBack,
\* updateGraphic and setOptions raises "OSMD instance not initialized" and leaves
\* isLoading, error, zoom and the engine as they were.
C9_NotInitializedRaises ==
  [][(ghost'.ops = ghost.ops + 1 /\ result'.op \in NeedInstance /\ hook.osmdRef = NullInst)
      => /\ result'.raised = [kind |-> "Error", message |-> "OSMD instance not initialized"]
         /\ hook'.isLoading = hook.isLoading /\ hook'.error = hook.error
         /\ hook'.zoomValue = hook.zoomValue /\ hook'.osmd = hook.osmd
         /\ engines' = engines /\ pending' = pending /\ ctorCalls' = ctorCalls]_vars

\* setOptions raised after the construction had failed
C9_Witness ==
  /\ hook.osmdRef = NullInst /\ ctorCalls # <<>> /\ hook.error # NoError
  /\ result.op = "setOptions" /\ result.raised = NotInitialized

\* C10: while the container handle of a mounted binding is unchanged, the engine
\* constructor is invoked at most once, for any number of re-renders, with or without
\* a new options object; with an absent container it is never invoked.
C10_ConstructedAtMostOnce ==
  ~ghost.handleChanged
    => /\ Len(ctorCalls) <= 1
       /\ Current(hook.containerRef) = NullC => ctorCalls = <<>>

\* version 2 ran its effect again on a re-render with a new options object (the
\* cleanup of the first run is used up) and the constructor was called once
C10_Witness ==
  /\ phase = "mounted" /\ version = 2 /\ ~ghost.handleChanged /\ ghost.ops >= 1
  /\ ~hook.cleanup /\ Len(ctorCalls) = 1

\* C11: if the engine constructor throws, the failure is stored in the error state (a
\* value that is no Error as Error "Failed to initialize OSMD"), nothing is raised to
\* the caller, the exposed instance stays null, and the constructor is never invoked
\* again in that activation, whatever re-renders or container changes follow.
C11_FailedConstructionIsFinal ==
  (ctorCalls # <<>> /\ ctorCalls[1].thrown # NoError)
    => /\ Len(ctorCalls) = 1
       /\ hook.osmd = NullInst
       /\ hook.error = (IF ctorCalls[1].thrown.kind = "Error" THEN ctorCalls[1].thrown
                        ELSE [kind |-> "Error", message |-> "Failed to initialize OSMD"])
       /\ result.op = "mount" => result.raised = NoError

\* the step is a re-render that passes the handle of another container to a binding
\* that has an engine instance
HandleMoves ==
  /\ ghost'.ops = ghost.ops + 1
  /\ hook.osmdRef # NullInst
  /\ Current(hook.containerRef) # NullC /\ Current(hook'.containerRef) # NullC
  /\ Current(hook'.containerRef) # Current(hook.containerRef)

\* C12: when the container handle of an active binding changes to a different container,
\* the old engine instance is cleared, the constructor is invoked on the new container,
\* and from then on the binding no longer acts on the old instance.
C12_HandleChangeRebinds ==
  [][HandleMoves
      => /\ engines'[hook.osmdRef].clearCalls = engines[hook.osmdRef].clearCalls + 1
         /\ Len(ctorCalls') = Len(ctorCalls) + 1
         /\ ctorCalls'[Len(ctorCalls')].on = Current(hook'.containerRef)
         /\ hook'.osmdRef # hook.osmdRef]_vars

\* the step unmounts the binding
IsUnmount == phase = "mounted" /\ phase' = "gone"

\* C13: when a binding whose engine instance was constructed is unmounted, the engine's
\* clear is invoked as part of that unmount, whatever re-renders came before.
C13_UnmountClears ==
  [][(IsUnmount /\ hook.osmdRef # NullInst)
      => engines'[hook.osmdRef].clearCalls = engines[hook.osmdRef].clearCalls + 1]_vars

\* C14: an exception thrown by the engine's clear during teardown is swallowed: the
\* unmount completes without raising and the error state is not changed by it.
C14_TeardownSwallows ==
  [][IsUnmount => (result'.raised = NoError /\ hook'.error = hook.error)]_vars

\* the unmount invoked the clear of an engine whose clear throws, and returned
C14_Witness ==
  /\ phase = "gone" /\ version = 1 /\ ghost.ops = 0 /\ result = Returned("unmount")
  /\ hook.osmdRef # NullInst
  /\ engines[hook.osmdRef].clearThrows /\ engines[hook.osmdRef].clearCalls = 1

\* the step is a call of clear()
IsClearCall == ghost'.ops = ghost.ops + 1 /\ result'.op = "clear"

\* the clear calls an engine received from clear(), not from the effect's cleanup
UserClears(e) == e.clearCalls - e.cleanupCalls

C16_LastSettledWins ==
  (ghost.overlapped /\ pending = {} /\ result.op = "loadSettled")
    => hook.error = (IF ghost.settled.resolved /\ ~ghost.settled.renderThrows THEN NoError
                     ELSE IF ghost.settled.thrown.kind = "Error" THEN ghost.settled.thrown
                     ELSE [kind |-> "Error", message |-> "Failed to load music"])

\* the step is a call of setZoom
IsZoomCall == ghost'.ops = ghost.ops + 1 /\ result'.op = "setZoom"

\* C20: setZoom(scale) on an initialized binding writes scale to the engine's zoom,
\* sets the exposed zoom to the same scale and invokes the engine's render exactly
\* once; on an uninitialized binding it changes nothing, touches no engine and does
\* not raise.
C20_SetZoomWritesAndRenders ==
  [][IsZoomCall
      => /\ result'.raised = NoError
         /\ hook.osmdRef = NullInst => (hook' = hook /\ engines' = engines)
         /\ hook.osmdRef # NullInst
              => /\ engines'[hook.osmdRef].zoom = result'.arg
                 /\ hook'.zoomValue = result'.arg
                 /\ engines'[hook.osmdRef].renderCalls = engines[hook.osmdRef].renderCalls + 1
                 /\ engines'[hook.osmdRef].rasbCalls = engines[hook.osmdRef].rasbCalls]_vars

\* setZoom(1.5) was the first call: zoom 1.5 in the engine and in the state, one render
C20_Witness ==
  /\ result = ZoomReturned(15) /\ hook.osmdRef # NullInst /\ ghost.ops = 1
  /\ engines[hook.osmdRef].zoom = 15 /\ hook.zoomValue = 15
  /\ engines[hook.osmdRef].renderCalls = 1

-----------------------------------------------------------------------------
(* Properties of the component's callbacks, under SpecComp *)

\* the load of the component that settles in the step, if one does
SettledLoad == pending \ pending'

\* C17: the component invokes onLoad (the one supplied by the render that triggered the
\* load) exactly once for each load it triggered that succeeded, with the engine instance
\* as argument and after the engine's load and render completed; it never invokes
\* onLoad for a load that failed, and at no other moment.
C17_OnLoadOncePerSuccess ==
  [][IF result'.op = "loadSettled" /\ SettledLoad # {}
     THEN \A p \in SettledLoad :
            IF ghost'.settled.resolved /\ ~ghost'.settled.renderThrows /\ p.caller.onLoad # NoCallback
            THEN /\ comp'.onLoadCalls = Append(comp.onLoadCalls, [arg |-> p.inst])
                 /\ p.inst = hook.osmd
                 /\ engines'[p.inst].renderCalls = engines[p.inst].renderCalls + 1
            ELSE comp'.onLoadCalls = comp.onLoadCalls
     ELSE comp'.onLoadCalls = comp.onLoadCalls]_vars

\* one load succeeded and onLoad was invoked once, with the instance, after the render
C17_Witness ==
  /\ result = Returned("loadSettled") /\ pending = {}
  /\ comp.onLoadCalls = <<[arg |-> hook.osmd]>> /\ hook.osmd # NullInst
  /\ engines[hook.osmd].renderCalls = 1 /\ Len(engines[hook.osmd].loadCalls) = 1

\* the Error objects a failed load may hand to onError
LoadErrors ==
  {t \in Thrown : t.kind = "Error"} \cup {[kind |-> "Error", message |-> "Failed to load music"]}

\* C18: for each load triggered by the component that fails, onError (if supplied to
\* the render that triggered the load) is invoked at least once, and every value
\* passed to onError is an Error object: the rejected Error itself, or an Error
\* "Failed to load music" when the rejected value is not an Error.
C18_OnErrorGetsErrors ==
  [][/\ (result'.op = "loadSettled" /\ SettledLoad # {} /\ ~ghost'.settled.resolved)
          => \A p \in SettledLoad :
               p.caller.onError # NoCallback
                 => Len(comp'.onErrorCalls) > Len(comp.onErrorCalls)
     /\ EngineLoads' # <<>>
          => \A i \in DOMAIN comp'.onErrorCalls : comp'.onErrorCalls[i].arg \in LoadErrors]_vars

\* a load rejected with a string: onError received the generic Error, from the catch
\* block and from the effect that observes the error state
C18_Witness ==
  /\ result.op = "loadSettled" /\ ghost.settled.thrown.kind = "string"
  /\ Len(comp.onErrorCalls) = 2
  /\ \A i \in DOMAIN comp.onErrorCalls :
       comp.onErrorCalls[i].arg = MkError("Failed to load music")

\* C19: if the engine construction throws while the component mounts, the component
\* renders without raising, the error state is that failure, onError (if supplied) has
\* been invoked with that error once the mount has settled, and the engine's load is
\* never called.
C19_InitFailureReported ==
  (phase # "new" /\ ctorCalls # <<>> /\ ctorCalls[1].thrown # NoError)
    => /\ result.raised = NoError
       /\ hook.error # NoError
       /\ hook.error = (IF ctorCalls[1].thrown.kind = "Error" THEN ctorCalls[1].thrown
                        ELSE [kind |-> "Error", message |-> "Failed to initialize OSMD"])
       /\ comp.onError # NoCallback
            => \E i \in DOMAIN comp.onErrorCalls : comp.onErrorCalls[i].arg = hook.error
       /\ EngineLoads = <<>>

\* the component was mounted with a file and an onError, the constructor threw a
\* string, and onError received the Error made of it
C19_Witness ==
  /\ phase = "mounted" /\ ghost.ops = 0 /\ comp.file = Str(<<"a">>) /\ comp.musicXML = Absent
  /\ ctorCalls # <<>> /\ ctorCalls[1].thrown.kind = "string"
  /\ comp.onErrorCalls = <<[arg |-> MkError("Failed to initialize OSMD"), from |-> "effect"]>>
  /\ EngineLoads = <<>>

-----------------------------------------------------------------------------
(* The cursor facet of useOSMD, specified on its own: the binding is given by    *)
(* osmdRef.current (an instance or null) and by the cursor sub-object of that    *)
(* instance                                                                      *)

\* cursor operations per binding
MaxCursorOps == 2

\* the binding and the component stay as constructed while a part is run on its own
Idle ==
  /\ phase = "new" /\ hook = HookInit /\ engines = [c \in Containers |-> NoEngine]
  /\ ctorCalls = <<>> /\ pending = {} /\ comp = CompInit
  /\ result = Returned("none") /\ ghost = GhostInit

Frozen == UNCHANGED <<version, phase, hook, engines, ctorCalls, pending, comp, result, ghost>>

\* the operations of the facet, and those the code calls only after a typeof test
CursorMethods ==
  {"show", "hide", "next", "previous", "nextMeasure", "previousMeasure",
   "reset", "resetIterator", "update"}
TypeofGuarded == {"nextMeasure", "previousMeasure", "resetIterator", "update"}
\* the methods every engine cursor has, and those it may lack
RequiredCursorMethods == {"show", "hide", "next", "previous"}
OptionalCursorMethods == CursorMethods \ RequiredCursorMethods

Undefined == "undefined"
\* the JavaScript booleans, as values that can stand next to undefined
JsTrue == "true"
JsFalse == "false"
JsBooleans == {JsTrue, JsFalse}
\* calling a property that is undefined
NotAFunction == [kind |-> "Error", message |-> "TypeError: not a function"]

\* osmdRef.current.cursor: absent, or an object with methods and two fields that
\* may be undefined; `calls` records the methods invoked on it
NoCursor ==
  [exists |-> FALSE, methods |-> {}, Hidden |-> Undefined, SkipInvisibleNotes |-> Undefined,
   calls |-> <<>>]
EngineCursors ==
  {[exists |-> TRUE, methods |-> ms, Hidden |-> h, SkipInvisibleNotes |-> sk, calls |-> <<>>] :
     ms \in {CursorMethods} \cup {CursorMethods \ {m} : m \in OptionalCursorMethods}
            \cup {RequiredCursorMethods},
     h \in {Undefined} \cup JsBooleans, sk \in {Undefined} \cup JsBooleans}

CursorReturn(op, arg, value) == [op |-> op, arg |-> arg, raised |-> NoError, value |-> value]
CursorRaise(op, err) == [op |-> op, arg |-> Undefined, raised |-> err, value |-> Undefined]

\* `osmdRef.current?.cursor`
HasCursor(a) == a.inst /\ a.cursor.exists

\* mutant: the operations call the cursor without testing that it exists
CursorCall_NoCursorTest(a, m) ==
  IF ~HasCursor(a) THEN [a EXCEPT !.result = CursorRaise(m, NotAFunction)]
  ELSE IF m \in TypeofGuarded /\ m \notin a.cursor.methods
       THEN [a EXCEPT !.result = CursorReturn(m, Undefined, Undefined)]
       ELSE IF m \notin a.cursor.methods
            THEN [a EXCEPT !.result = CursorRaise(m, NotAFunction)]
            ELSE [a EXCEPT !.cursor.calls = Append(@, m),
                           !.result = CursorReturn(m, Undefined, Undefined)]

\* mutant: an optional method that is missing is called all the same
CursorCall_Unguarded(a, m) ==
  IF ~HasCursor(a) THEN [a EXCEPT !.result = CursorReturn(m, Undefined, Undefined)]
  ELSE IF m \notin a.cursor.methods
       THEN [a EXCEPT !.result = CursorRaise(m, NotAFunction)]
       ELSE [a EXCEPT !.cursor.calls = Append(@, m),
                      !.result = CursorReturn(m, Undefined, Undefined)]

\* cursor.show() ... cursor.update()
CursorCall(a, m) ==
  IF ~HasCursor(a) THEN [a EXCEPT !.result = CursorReturn(m, Undefined, Undefined)]
  ELSE IF m \in TypeofGuarded /\ m \notin a.cursor.methods
       THEN [a EXCEPT !.result = CursorReturn(m, Undefined, Undefined)]
       ELSE IF m \notin a.cursor.methods
            THEN [a EXCEPT !.result = CursorRaise(m, NotAFunction)]
            ELSE [a EXCEPT !.cursor.calls = Append(@, m),
                           !.result = CursorReturn(m, Undefined, Undefined)]

\* `x ?? d`
Coalesce(x, d) == IF x = Undefined THEN d ELSE x

\* get hidden()
GetHidden(a) ==
  [a EXCEPT !.result = CursorReturn("getHidden", Undefined,
                                    IF HasCursor(a) THEN Coalesce(a.cursor.Hidden, JsTrue) ELSE JsTrue)]

\* get skipInvisibleNotes()
GetSkipInvisibleNotes(a) ==
  [a EXCEPT !.result = CursorReturn("getSkipInvisibleNotes", Undefined,
                         IF HasCursor(a) THEN Coalesce(a.cursor.SkipInvisibleNotes, JsFalse)
                         ELSE JsFalse)]

\* mutant: the setter of version 2 in both versions
SetHidden_ViaMethods(v, a, value) ==
  IF ~HasCursor(a) THEN [a EXCEPT !.result = CursorReturn("setHidden", value, Undefined)]
  ELSE [a EXCEPT !.cursor.calls = Append(@, IF value = JsTrue THEN "hide" ELSE "show"),
                 !.cursor.Hidden = IF @ # Undefined THEN value ELSE @,
                 !.result = CursorReturn("setHidden", value, Undefined)]

\* set hidden(value): version 1 assigns the field; version 2 calls hide() or show() and
\* assigns the field only if the cursor has it
SetHidden(v, a, value) ==
  IF ~HasCursor(a) THEN [a EXCEPT !.result = CursorReturn("setHidden", value, Undefined)]
  ELSE IF v = 1
       THEN [a EXCEPT !.cursor.Hidden = value,
                      !.result = CursorReturn("setHidden", value, Undefined)]
       ELSE [a EXCEPT !.cursor.calls = Append(@, IF value = JsTrue THEN "hide" ELSE "show"),
                      !.cursor.Hidden = IF @ # Undefined THEN value ELSE @,
                      !.result = CursorReturn("setHidden", value, Undefined)]

\* set skipInvisibleNotes(value)
SetSkipInvisibleNotes(a, value) ==
  IF ~HasCursor(a) THEN [a EXCEPT !.result = CursorReturn("setSkipInvisibleNotes", value, Undefined)]
  ELSE [a EXCEPT !.cursor.SkipInvisibleNotes = value,
                 !.result = CursorReturn("setSkipInvisibleNotes", value, Undefined)]

InitCursor ==
  /\ Idle
  /\ version \in {1, 2}
  /\ \E inst \in BOOLEAN, c \in EngineCursors \cup {NoCursor} :
       /\ ~inst => c = NoCursor
       /\ aux = [kind |-> "cursor", inst |-> inst, cursor |-> c, ops |-> 0,
                 result |-> CursorReturn("none", Undefined, Undefined)]

CursorStep(a) ==
  /\ aux.ops < MaxCursorOps
  /\ aux' = [a EXCEPT !.ops = @ + 1]
  /\ Frozen

CursorOperation == \E m \in CursorMethods : CursorStep(CursorCall(aux, m))

ReadHidden == CursorStep(GetHidden(aux))

WriteHidden == \E value \in JsBooleans : CursorStep(SetHidden(version, aux, value))

ReadSkipInvisibleNotes == CursorStep(GetSkipInvisibleNotes(aux))

WriteSkipInvisibleNotes == \E value \in JsBooleans : CursorStep(SetSkipInvisibleNotes(aux, value))

NextCursor ==
  \/ CursorOperation
  \/ ReadHidden
  \/ WriteHidden
  \/ ReadSkipInvisibleNotes
  \/ WriteSkipInvisibleNotes

SpecCursor == InitCursor /\ [][NextCursor]_vars

\* C21: on a binding with no engine instance, or whose engine has no cursor, each cursor
\* operation and each write of hidden or skipInvisibleNotes completes without raising
\* and without any engine interaction; reading hidden returns true and reading
\* skipInvisibleNotes returns false.
C21_NoCursorNoEffect ==
  [][~HasCursor(aux)
      => /\ aux'.result.raised = NoError
         /\ aux'.cursor = aux.cursor /\ aux'.inst = aux.inst
         /\ aux'.result.op = "getHidden" => aux'.result.value = JsTrue
         /\ aux'.result.op = "getSkipInvisibleNotes" => aux'.result.value = JsFalse]_vars

\* an instance without a cursor: after another operation hidden is read as true
C21_Witness ==
  /\ aux.kind = "cursor" /\ aux.inst /\ ~aux.cursor.exists /\ aux.ops = 2
  /\ aux.result.op = "getHidden" /\ aux.result.value = JsTrue

\* the step calls a cursor operation whose method the engine's cursor lacks
CallsMissing(m) == HasCursor(aux) /\ aux'.result.op = m /\ m \notin aux.cursor.methods

\* C22 (as stated): for each of nextMeasure, previousMeasure, reset, resetIterator and
\* update, when the engine's cursor exists but lacks that method, the operation is a
\* no-op that does not raise.
C22_MissingMethodIsNoOp ==
  [][\A m \in {"nextMeasure", "previousMeasure", "reset", "resetIterator", "update"} :
       CallsMissing(m) => (aux'.result.raised = NoError /\ aux'.cursor = aux.cursor)]_vars

\* C22 (amended): for each of nextMeasure, previousMeasure, resetIterator and update,
\* when the engine's cursor exists but lacks that method, the operation is a no-op that
\* does not raise; reset is called without a test, as show, hide, next and previous
\* are, and raises when the cursor lacks it.
C22_MissingGuardedMethodIsNoOp ==
  [][/\ \A m \in {"nextMeasure", "previousMeasure", "resetIterator", "update"} :
          CallsMissing(m) => (aux'.result.raised = NoError /\ aux'.cursor = aux.cursor)
     /\ CallsMissing("reset") => (aux'.result.raised # NoError /\ aux'.cursor = aux.cursor)]_vars

\* update() was called on a cursor that lacks update but has the other methods
C22_Witness ==
  /\ aux.kind = "cursor" /\ HasCursor(aux) /\ aux.cursor.methods = CursorMethods \ {"update"}
  /\ aux.result = CursorReturn("update", Undefined, Undefined) /\ aux.cursor.calls = <<>>

\* the step writes hidden, or skipInvisibleNotes, on a binding whose engine has a cursor
WritesHidden == HasCursor(aux) /\ aux'.result.op = "setHidden"
WritesSkip == HasCursor(aux) /\ aux'.result.op = "setSkipInvisibleNotes"

\* C23 (as stated): with an engine cursor, hidden and skipInvisibleNotes are backed
\* directly by the cursor's fields: a read after a write of v returns v, and the write
\* changes only that field of the cursor and invokes no engine method.
C23_FieldsBackTheProperties ==
  [][/\ WritesHidden => aux'.cursor = [aux.cursor EXCEPT !.Hidden = aux'.result.arg]
     /\ WritesSkip => aux'.cursor = [aux.cursor EXCEPT !.SkipInvisibleNotes = aux'.result.arg]
     /\ (HasCursor(aux) /\ aux.result.op = "setHidden" /\ aux'.result.op = "getHidden")
          => aux'.result.value = aux.result.arg
     /\ (HasCursor(aux) /\ aux.result.op = "setSkipInvisibleNotes"
           /\ aux'.result.op = "getSkipInvisibleNotes")
          => aux'.result.value = aux.result.arg]_vars

\* C23 (amended): skipInvisibleNotes is backed directly by the cursor's field: a write
\* of v changes only that field and invokes no engine method, and a read after it
\* returns v.  A write of v to hidden changes no other field; in version 1 it assigns
\* the Hidden field and invokes no method; in version 2 it invokes the cursor's hide()
\* (v true) or show() (v false) and assigns the Hidden field only if the cursor has
\* one.  A read of hidden after a write of v returns v when the cursor has the field
\* (in version 1 always); otherwise it returns true.
C23_FieldsBackThePropertiesByVersion ==
  [][/\ WritesHidden
          => aux'.cursor =
               IF version = 1 THEN [aux.cursor EXCEPT !.Hidden = aux'.result.arg]
               ELSE [aux.cursor EXCEPT
                       !.calls = Append(@, IF aux'.result.arg = JsTrue THEN "hide" ELSE "show"),
                       !.Hidden = IF @ = Undefined THEN @ ELSE aux'.result.arg]
     /\ WritesSkip => aux'.cursor = [aux.cursor EXCEPT !.SkipInvisibleNotes = aux'.result.arg]
     /\ (HasCursor(aux) /\ aux.result.op = "setHidden" /\ aux'.result.op = "getHidden")
          => aux'.result.value =
               (IF version = 1 \/ aux.cursor.Hidden # Undefined THEN aux.result.arg ELSE JsTrue)
     /\ (HasCursor(aux) /\ aux.result.op = "setSkipInvisibleNotes"
           /\ aux'.result.op = "getSkipInvisibleNotes")
          => aux'.result.value = aux.result.arg]_vars

\* version 2: hidden was written false on a cursor that has the field (show() was
\* invoked) and then read as false
C23_Witness ==
  /\ aux.kind = "cursor" /\ version = 2 /\ HasCursor(aux) /\ aux.ops = 2
  /\ aux.result.op = "getHidden" /\ aux.result.value = JsFalse
  /\ aux.cursor.calls = <<"show">> /\ aux.cursor.Hidden = JsFalse

-----------------------------------------------------------------------------
(* The options SheetMusic hands to useOSMD, and useOSMD to the engine constructor *)

\* an options object: a value for each key, Undefined for a key it does not have
OptionKeys == {"backend", "drawTitle", "autoResize"}
OptionValues(k) == IF k = "backend" THEN {"svg", "canvas"} ELSE JsBooleans
EmptyOptions == [k \in OptionKeys |-> Undefined]
OptionsObjects == {o \in [OptionKeys -> {Undefined, "svg", "canvas"} \cup JsBooleans] :
                     \A k \in OptionKeys : o[k] = Undefined \/ o[k] \in OptionValues(k)}

\* a parameter with a default value: `autoResize = true`
Default(v, d) == IF v = Undefined THEN d ELSE v

\* `{ ...options, autoResize }`, with `options = {}` when the prop is not given
ForwardedOptions(given, options, autoResize) ==
  [(IF given THEN options ELSE EmptyOptions) EXCEPT !["autoResize"] = Default(autoResize, JsTrue)]

InitOptions ==
  /\ Idle
  /\ version \in {1, 2}
  /\ \E given \in BOOLEAN, o \in OptionsObjects, ar \in {Undefined} \cup JsBooleans :
       /\ ~given => o = EmptyOptions
       /\ aux = [kind |-> "options", given |-> given, options |-> o, autoResize |-> ar,
                 constructed |-> FALSE, passed |-> EmptyOptions]

\* the render of <SheetMusic options autoResize /> up to the constructor call
PassOptions ==
  /\ ~aux.constructed
  /\ aux' = [aux EXCEPT !.constructed = TRUE,
                        !.passed = ForwardedOptions(aux.given, aux.options, aux.autoResize)]
  /\ Frozen

NextOptions == PassOptions

SpecOptions == InitOptions /\ [][NextOptions]_vars

\* C24: the options passed to the engine constructor carry every key of the options
\* prop unchanged, plus autoResize, and the autoResize passed is true unless the user
\* overrode it, through the autoResize prop or through options.autoResize.
C24_OptionsForwarded ==
  aux.constructed
    => /\ \A k \in OptionKeys : aux.options[k] # Undefined => aux.passed[k] = aux.options[k]
       /\ aux.passed["autoResize"] =
            (IF aux.autoResize # Undefined THEN aux.autoResize
             ELSE IF aux.options["autoResize"] # Undefined THEN aux.options["autoResize"]
             ELSE JsTrue)

-----------------------------------------------------------------------------
(* usePageFormat *)

\* lengths are in tenths: 2794 is 279.4
Fmt(w, h, id, inf) ==
  [kind |-> "PageFormat", width |-> w, height |-> h, idString |-> id, isInfinite |-> inf]

\* a value that is no page format: a member that every object inherits from
\* Object.prototype; it has no width, height or idString
Inherited(name) ==
  [kind |-> "inherited", width |-> 0, height |-> 0, idString |-> Undefined, isInfinite |-> name]
NoFormat ==
  [kind |-> "undefined", width |-> 0, height |-> 0, idString |-> Undefined, isInfinite |-> Undefined]

RegisteredNames ==
  {"A3_L", "A3_P", "A4_L", "A4_P", "A5_L", "A5_P", "A6_L", "A6_P", "Letter_L", "Letter_P",
   "Endless"}
\* names that an object literal resolves through its prototype
ObjectPrototypeNames == {"constructor", "toString"}

Endless == Fmt(2100, 100000, "Endless", JsTrue)

\* `PageFormats[name]`: the table, then the prototype of the object literal
PageFormats(name) ==
  CASE name = "A3_L" -> Fmt(4200, 2970, "A3_L", Undefined)
    [] name = "A3_P" -> Fmt(2970, 4200, "A3_P", Undefined)
    [] name = "A4_L" -> Fmt(2970, 2100, "A4_L", Undefined)
    [] name = "A4_P" -> Fmt(2100, 2970, "A4_P", Undefined)
    [] name = "A5_L" -> Fmt(2100, 1480, "A5_L", Undefined)
    [] name = "A5_P" -> Fmt(1480, 2100, "A5_P", Undefined)
    [] name = "A6_L" -> Fmt(1480, 1050, "A6_L", Undefined)
    [] name = "A6_P" -> Fmt(1050, 1480, "A6_P", Undefined)
    [] name = "Letter_L" -> Fmt(2794, 2159, "Letter_L", Undefined)
    [] name = "Letter_P" -> Fmt(2159, 2794, "Letter_P", Undefined)
    [] name = "Endless" -> Endless
    [] name \in ObjectPrototypeNames -> Inherited(name)
    [] OTHER -> NoFormat

\* `PageFormats[name] || PageFormats.Endless`
LookupFormat(name) ==
  IF PageFormats(name) = NoFormat THEN Endless ELSE PageFormats(name)

\* an argument that is a string or a PageFormat object
StringArg(name) == [type |-> "string", name |-> name, object |-> NoFormat]
ObjectArg(f) == [type |-> "object", name |-> "", object |-> f]
NoArg == [type |-> "undefined", name |-> "", object |-> NoFormat]

\* getInitialFormat()
GetInitialFormat(initialFormat) ==
  IF initialFormat.type = "undefined" \/ (initialFormat.type = "string" /\ initialFormat.name = "")
  THEN Endless
  ELSE IF initialFormat.type = "string" THEN LookupFormat(initialFormat.name)
       ELSE initialFormat.object

\* setFormat(newFormat)
SetFormatState(newFormat) ==
  IF newFormat.type = "string" THEN LookupFormat(newFormat.name) ELSE newFormat.object

\* a number in a template literal
RECURSIVE Digits(_)
Digits(n) == IF n < 10 THEN SubSeq("0123456789", n + 1, n + 1)
             ELSE Digits(n \div 10) \o SubSeq("0123456789", (n % 10) + 1, (n % 10) + 1)
NumberText(t) ==
  LET a == IF t < 0 THEN 0 - t ELSE t
      whole == Digits(a \div 10)
      body == IF a % 10 = 0 THEN whole ELSE whole \o "." \o Digits(a % 10)
  IN IF t < 0 THEN "-" \o body ELSE body

\* mutant: an empty id counts as no id
CustomFormat_FalsyId(width, height, id) ==
  Fmt(width, height,
      IF id # Undefined /\ id # "" THEN id
      ELSE "Custom_" \o NumberText(width) \o "x" \o NumberText(height),
      JsFalse)

\* the format setCustomFormat(width, height, id) stores
CustomFormat(width, height, id) ==
  Fmt(width, height,
      IF id # Undefined THEN id ELSE "Custom_" \o NumberText(width) \o "x" \o NumberText(height),
      JsFalse)

\* the arguments the hook is run with
FormatNames == RegisteredNames \cup ObjectPrototypeNames \cup {"", "InvalidFormat", "a4_p"}
FormatObjects == {Fmt(2000, 3000, "Custom", Undefined), Fmt(1500, 2000, "CustomSize", Undefined)}
FormatArgs == {StringArg(n) : n \in FormatNames} \cup {ObjectArg(f) : f \in FormatObjects}
Lengths == {0 - 1000, 0 - 5, 0, 1000, 2105}
Ids == {Undefined, "", "MyCustomFormat"}

PageCall(op, arg, width, height, id) ==
  [op |-> op, arg |-> arg, width |-> width, height |-> height, id |-> id]

InitPage ==
  /\ Idle
  /\ version = 1
  /\ \E initialFormat \in FormatArgs \cup {NoArg} :
       aux = [kind |-> "page", format |-> GetInitialFormat(initialFormat),
              call |-> PageCall("usePageFormat", initialFormat, 0, 0, Undefined)]

SetFormat ==
  /\ \E newFormat \in FormatArgs :
       aux' = [aux EXCEPT !.format = SetFormatState(newFormat),
                          !.call = PageCall("setFormat", newFormat, 0, 0, Undefined)]
  /\ Frozen

SetCustomFormat ==
  /\ \E width \in Lengths, height \in Lengths, id \in Ids :
       aux' = [aux EXCEPT !.format = CustomFormat(width, height, id),
                          !.call = PageCall("setCustomFormat", NoArg, width, height, id)]
  /\ Frozen

NextPage ==
  \/ SetFormat
  \/ SetCustomFormat

SpecPage == InitPage /\ [][NextPage]_vars

\* C25: for every string that is not one of the eleven registered names, usePageFormat
\* with that initialFormat and setFormat with that string yield the Endless format, and
\* the format is never undefined or a value that is no page-format record.
C25_UnknownNameIsEndless ==
  /\ (aux.call.op \in {"usePageFormat", "setFormat"} /\ aux.call.arg.type = "string"
        /\ aux.call.arg.name \notin RegisteredNames)
       => aux.format = Endless
  /\ aux.format.kind = "PageFormat"

\* C26: setCustomFormat(w, h, id) sets width w, height h and isInfinite false for all w
\* and h (zero and negative included); idString is "Custom_<w>x<h>" when id is omitted and
\* exactly id when id is given, the empty string included.
LengthText(l) ==
  CASE l = 0 - 1000 -> "-100"
    [] l = 0 - 5 -> "-0.5"
    [] l = 0 -> "0"
    [] l = 1000 -> "100"
    [] l = 2105 -> "210.5"
C26_CustomFormatStored ==
  aux.call.op = "setCustomFormat" =>
    /\ aux.format.kind = "PageFormat"
    /\ aux.format.width = aux.call.width
    /\ aux.format.height = aux.call.height
    /\ aux.format.isInfinite = JsFalse
    /\ aux.format.idString =
         IF aux.call.id = Undefined
         THEN "Custom_" \o LengthText(aux.call.width) \o "x" \o LengthText(aux.call.height)
         ELSE aux.call.id
C26_Witness ==
  /\ aux.call.op = "setCustomFormat"
  /\ aux.call.id = ""
  /\ aux.call.width < 0
  /\ aux.call.height = 0
  /\ aux.format.idString = ""

-----------------------------------------------------------------------------
(* useMultipleCursors *)

MaxCursors == 3

\* CursorOptions, and the Partial<CursorOptions> an update carries
CursorColors == {"#33e02f", "#ff0000"}
CursorOptions == [color : CursorColors, follow : JsBooleans]
PartialCursorOptions ==
  {[k \in {} |-> ""]} \cup [color : CursorColors] \cup [follow : JsBooleans]
    \cup [color : {"#0000ff"}, follow : {JsTrue}]
NoCursorArg == [k \in {} |-> ""]

\* mutant: the spreads are in the other order, so the cursor's own fields win
Spread_CursorLast(cursor, update) ==
  [k \in DOMAIN cursor \cup DOMAIN update |->
     IF k \in DOMAIN cursor THEN cursor[k] ELSE update[k]]

\* `{ ...cursor, ...update }`
Spread(cursor, update) ==
  [k \in DOMAIN cursor \cup DOMAIN update |->
     IF k \in DOMAIN update THEN update[k] ELSE cursor[k]]

RECURSIVE Filter(_, _, _)
\* prev.filter((_, i) => i !== index), from position i on
Filter(list, i, index) ==
  IF i >= Len(list) THEN <<>>
  ELSE (IF i # index THEN <<list[i + 1]>> ELSE <<>>) \o Filter(list, i + 1, index)

\* mutant: the element is cut out with splice, which counts a negative index from the end
RemoveCursorState_Splice(prev, index) ==
  LET at == IF index < 0 THEN (IF Len(prev) + index < 0 THEN 0 ELSE Len(prev) + index)
            ELSE index
  IN Filter(prev, 0, at)

\* removeCursor(index)
RemoveCursorState(prev, index) == Filter(prev, 0, index)

\* updateCursor(index, update)
UpdateCursorState(prev, index, update) ==
  [p \in 1 .. Len(prev) |-> IF p - 1 = index THEN Spread(prev[p], update) ELSE prev[p]]

\* mutant: the new cursor is put in front
AddCursorState_Prepend(prev, cursor) == <<cursor>> \o prev

\* addCursor(cursor)
AddCursorState(prev, cursor) == prev \o <<cursor>>

Indices == (0 - 2) .. (MaxCursors + 1)
InitialCursors ==
  {<<>>,
   <<[color |-> "#33e02f", follow |-> JsFalse]>>,
   <<[color |-> "#ff0000", follow |-> JsTrue], [color |-> "#33e02f", follow |-> JsFalse]>>}

CursorsCall(op, index, arg) == [op |-> op, index |-> index, arg |-> arg]

InitCursors ==
  /\ Idle
  /\ version = 1
  /\ \E initialCursors \in InitialCursors :
       aux = [kind |-> "cursors", cursors |-> initialCursors, prev |-> initialCursors,
              call |-> CursorsCall("useMultipleCursors", 0, NoCursorArg)]

AddCursor ==
  /\ Len(aux.cursors) < MaxCursors
  /\ \E cursor \in CursorOptions :
       aux' = [aux EXCEPT !.cursors = AddCursorState(aux.cursors, cursor), !.prev = aux.cursors,
                          !.call = CursorsCall("addCursor", 0, cursor)]
  /\ Frozen

RemoveCursor ==
  /\ \E index \in Indices :
       aux' = [aux EXCEPT !.cursors = RemoveCursorState(aux.cursors, index), !.prev = aux.cursors,
                          !.call = CursorsCall("removeCursor", index, NoCursorArg)]
  /\ Frozen

UpdateCursor ==
  /\ \E index \in Indices, update \in PartialCursorOptions :
       aux' = [aux EXCEPT !.cursors = UpdateCursorState(aux.cursors, index, update), !.prev = aux.cursors,
                          !.call = CursorsCall("updateCursor", index, update)]
  /\ Frozen

ClearCursors ==
  /\ aux' = [aux EXCEPT !.cursors = <<>>, !.prev = aux.cursors,
                        !.call = CursorsCall("clearCursors", 0, NoCursorArg)]
  /\ Frozen

NextCursors ==
  \/ AddCursor
  \/ RemoveCursor
  \/ UpdateCursor
  \/ ClearCursors

SpecCursors == InitCursors /\ [][NextCursors]_vars

\* C27: for every cursor list and every index outside [0, length), negative or too
\* large, removeCursor(index) and updateCursor(index, update) leave the list unchanged:
\* same length, same elements in the same order.
OutOfRange(index, list) == index < 0 \/ index >= Len(list)
C27_OutOfRangeIndexIsNoOp ==
  [][(aux'.call.op \in {"removeCursor", "updateCursor"}
        /\ OutOfRange(aux'.call.index, aux.cursors))
       => /\ Len(aux'.cursors) = Len(aux.cursors)
          /\ \A p \in 1 .. Len(aux.cursors) : aux'.cursors[p] = aux.cursors[p]]_vars
C27_Witness ==
  /\ aux.call.op \in {"removeCursor", "updateCursor"}
  /\ aux.call.index < 0
  /\ Len(aux.cursors) = 2
  /\ aux.cursors[1] # aux.cursors[2]

-----------------------------------------------------------------------------
(* useColoring *)

\* enum ColoringMode, by member name
ColoringModes == {"XML", "Boomwhacker", "CustomColorSet"}

defaultBoomwhackerColors ==
  <<"#ff0000", "#ff7f00", "#ffff00", "#00ff00", "#0000ff", "#4b0082", "#9400d3", "#000000">>

\* a string[] that may be undefined
Colors(list) == [defined |-> TRUE, list |-> list]
NoColors == [defined |-> FALSE, list |-> <<>>]
ColorLists == {defaultBoomwhackerColors, <<"#111111", "#222222">>, <<>>}

\* `customColors ?? defaultBoomwhackerColors`
ColorsOrDefault(colors) == IF colors.defined THEN colors.list ELSE defaultBoomwhackerColors

\* the four state cells of the hook
ColoringState(mode, colors, enabled, dark) ==
  [coloringMode |-> mode, customColors |-> colors, coloringEnabled |-> enabled,
   darkMode |-> dark]

\* useState initial values
InitialColoring(initialOptions) ==
  ColoringState(Coalesce(initialOptions.mode, "XML"),
                ColorsOrDefault(initialOptions.customColors),
                Coalesce(initialOptions.enabled, JsFalse),
                JsFalse)

\* mutant: customColors is left out of the dependency array
GetOptionsDeps_NoCustomColors(st) == <<st.coloringMode, st.coloringEnabled, st.darkMode>>

\* the dependency array of getOptions
GetOptionsDeps(st) == <<st.coloringMode, st.coloringEnabled, st.customColors, st.darkMode>>

\* useCallback: the callback of the last render is kept while the dependencies are the
\* same; a callback is represented by the state cells it closes over
MemoGetOptions(kept, st) == IF GetOptionsDeps(kept) = GetOptionsDeps(st) THEN kept ELSE st

\* the body of getOptions, run with the cells it closes over
GetOptionsBody(closed) ==
  [coloringMode |-> closed.coloringMode,
   coloringEnabled |-> closed.coloringEnabled,
   coloringSetCustom |->
     IF closed.coloringMode = "CustomColorSet" THEN Colors(closed.customColors) ELSE NoColors,
   darkMode |-> closed.darkMode]
NoOptionsReturned ==
  [coloringMode |-> Undefined, coloringEnabled |-> Undefined, coloringSetCustom |-> NoColors,
   darkMode |-> Undefined]

\* a setter followed by the render it causes
ColoringRender(a, st, op) ==
  [a EXCEPT !.state = st, !.getOptions = MemoGetOptions(a.getOptions, st), !.call = op,
            !.setters = IF a.setters < 2 THEN a.setters + 1 ELSE a.setters]

InitialColoringOptions ==
  [mode : {Undefined, "Boomwhacker", "CustomColorSet"},
   customColors : {NoColors, Colors(<<"#111111", "#222222">>)},
   enabled : {Undefined, JsTrue}]

InitColoring ==
  /\ Idle
  /\ version = 1
  /\ \E initialOptions \in InitialColoringOptions :
       aux = [kind |-> "coloring", state |-> InitialColoring(initialOptions),
              getOptions |-> InitialColoring(initialOptions),
              call |-> "useColoring", setters |-> 0, returned |-> NoOptionsReturned]

SetColoringMode ==
  /\ \E mode \in ColoringModes :
       aux' = ColoringRender(aux, [aux.state EXCEPT !.coloringMode = mode], "setColoringMode")
  /\ Frozen

SetCustomColors ==
  /\ \E colors \in ColorLists :
       aux' = ColoringRender(aux, [aux.state EXCEPT !.customColors = colors], "setCustomColors")
  /\ Frozen

SetColoringEnabled ==
  /\ \E enabled \in JsBooleans :
       aux' = ColoringRender(aux, [aux.state EXCEPT !.coloringEnabled = enabled],
                             "setColoringEnabled")
  /\ Frozen

SetDarkMode ==
  /\ \E enabled \in JsBooleans :
       aux' = ColoringRender(aux, [aux.state EXCEPT !.darkMode = enabled], "setDarkMode")
  /\ Frozen

GetOptions ==
  /\ aux' = [aux EXCEPT !.returned = GetOptionsBody(aux.getOptions), !.call = "getOptions"]
  /\ Frozen

NextColoring ==
  \/ SetColoringMode
  \/ SetCustomColors
  \/ SetColoringEnabled
  \/ SetDarkMode
  \/ GetOptions

SpecColoring == InitColoring /\ [][NextColoring]_vars

\* C28: after any sequence of coloring setters, getOptions returns the current
\* coloringMode, coloringEnabled and darkMode, with coloringSetCustom equal to the current
\* customColors when the mode is CustomColorSet and undefined in every other mode.
C28_GetOptionsIsCurrent ==
  aux.call = "getOptions" =>
    /\ aux.returned.coloringMode = aux.state.coloringMode
    /\ aux.returned.coloringEnabled = aux.state.coloringEnabled
    /\ aux.returned.darkMode = aux.state.darkMode
    /\ (aux.state.coloringMode = "CustomColorSet"
          => aux.returned.coloringSetCustom = Colors(aux.state.customColors))
    /\ (aux.state.coloringMode # "CustomColorSet"
          => ~aux.returned.coloringSetCustom.defined)
C28_Witness ==
  /\ aux.call = "getOptions"
  /\ aux.setters >= 2
  /\ aux.state.coloringMode = "CustomColorSet"
  /\ aux.state.customColors = <<>>
  /\ aux.returned.coloringSetCustom = Colors(<<>>)
  /\ aux.state.darkMode = JsTrue

-----------------------------------------------------------------------------
(* Properties of the rendering operations, under SpecHook *)

\* how often render was invoked on the engines, all together
RenderTotal(e) == e["divA"].renderCalls + e["divB"].renderCalls

\* C29: within one load call the engine's render is invoked exactly once, after the
\* engine's load has resolved, and it is not invoked at all when the engine's load rejects.
C29_RenderOncePerResolvedLoad ==
  [][/\ (result'.op = "load" /\ pending' # pending)
          => \A c \in Containers : engines'[c].renderCalls = engines[c].renderCalls
     /\ (result'.op = "loadSettled" /\ pending' # pending)
          => \A p \in pending \ pending' : \A c \in Containers :
               engines'[c].renderCalls =
                 IF ghost'.settled.resolved /\ c = p.inst
                 THEN engines[c].renderCalls + 1
                 ELSE engines[c].renderCalls]_vars
C29_Witness ==
  /\ result.op = "loadSettled"
  /\ ghost.settled.resolved
  /\ RenderTotal(engines) = 1

\* C30: renderAndScrollBack on an initialized binding invokes the engine's
\* renderAndScrollBack exactly once and not render when the engine exposes it, and
\* invokes the engine's render exactly once when it does not.
IsRenderAndScrollBackCall ==
  /\ result'.op = "renderAndScrollBack"
  /\ ghost'.ops = ghost.ops + 1
C30_RenderAndScrollBackOrRender ==
  [][(IsRenderAndScrollBackCall /\ hook.osmdRef # NullInst)
       => /\ result'.raised = NoError
          /\ \A c \in Containers :
               LET exposed == "renderAndScrollBack" \in engines[c].caps
                   target == c = hook.osmdRef
               IN /\ engines'[c].rasbCalls =
                       engines[c].rasbCalls + (IF target /\ exposed THEN 1 ELSE 0)
                  /\ engines'[c].renderCalls =
                       engines[c].renderCalls + (IF target /\ ~exposed THEN 1 ELSE 0)]_vars
C30_Witness ==
  /\ result.op = "renderAndScrollBack"
  /\ hook.osmdRef # NullInst
  /\ "renderAndScrollBack" \in engines[hook.osmdRef].caps
  /\ engines[hook.osmdRef].rasbCalls = 1
  /\ engines[hook.osmdRef].renderCalls = 0

-----------------------------------------------------------------------------
(* updateGraphic and setOptions on engines with any set of optional methods *)

\* the state before the first render
NewWorld(v) ==
  [version |-> v, hook |-> HookInit, engines |-> [c \in Containers |-> NoEngine],
   ctorCalls |-> <<>>, pending |-> {}, comp |-> CompInit, result |-> Returned("mount")]

\* a binding mounted on container A whose constructor returned an engine with the
\* optional methods `caps`
InitOptional ==
  /\ version \in {1, 2}
  /\ phase = "mounted"
  /\ \E caps \in SUBSET OptionalMethods, z \in EngineZooms :
       LET ctor == [ok |-> TRUE, thrown |-> NoError, zoom |-> z, caps |-> caps,
                    clearThrows |-> FALSE]
           w == HookMount(NewWorld(version), "refA", ctor)
       IN /\ hook = w.hook /\ engines = w.engines /\ ctorCalls = w.ctorCalls
          /\ pending = w.pending /\ comp = w.comp /\ result = w.result
  /\ ghost = GhostInit
  /\ aux = NoAux

CallSetOptionsWith == \E options \in SetOptionsArgs : Call(HookSetOptions(World, options))

NextOptional ==
  \/ CallUpdateGraphic
  \/ CallSetOptionsWith

SpecOptional == InitOptional /\ [][NextOptional]_vars

\* C31: on an initialized binding, updateGraphic and setOptions do not raise and invoke
\* no engine method when the engine lacks updateGraphic or setOptions respectively; when
\* the engine has the method it is invoked exactly once, setOptions with the options given.
IsOptionalCall(op) ==
  /\ result'.op = op
  /\ ghost'.ops = ghost.ops + 1
  /\ hook.osmdRef # NullInst
C31_OptionalMethodsGuarded ==
  [][/\ IsOptionalCall("updateGraphic")
          => /\ result'.raised = NoError
             /\ engines' =
                  IF "updateGraphic" \in engines[hook.osmdRef].caps
                  THEN [engines EXCEPT ![hook.osmdRef].updateGraphicCalls = @ + 1]
                  ELSE engines
     /\ IsOptionalCall("setOptions")
          => /\ result'.raised = NoError
             /\ engines' =
                  IF "setOptions" \in engines[hook.osmdRef].caps
                  THEN [engines EXCEPT ![hook.osmdRef].setOptionsCalls =
                                         Append(@, result'.arg)]
                  ELSE engines]_vars
\* an engine with updateGraphic and without setOptions, after one call of each
C31_Witness ==
  /\ hook.osmdRef # NullInst
  /\ engines[hook.osmdRef].caps = {"updateGraphic"}
  /\ engines[hook.osmdRef].updateGraphicCalls = 1
  /\ engines[hook.osmdRef].setOptionsCalls = <<>>
  /\ result.op = "setOptions"
  /\ result.raised = NoError
  /\ ghost.ops = 2

\* C32: addCursor appends the record at the end of the list and leaves all earlier
\* elements and their order unchanged; removeCursor(i) with 0 <= i < length removes
\* exactly the element at position i and keeps the relative order of the others;
\* clearCursors yields the empty list, after which addCursor works as on a new list.
C32_ListMutation ==
  /\ aux.call.op = "addCursor"
       => /\ Len(aux.cursors) = Len(aux.prev) + 1
          /\ \A p \in 1 .. Len(aux.prev) : aux.cursors[p] = aux.prev[p]
          /\ aux.cursors[Len(aux.cursors)] = aux.call.arg
  /\ (aux.call.op = "removeCursor" /\ ~OutOfRange(aux.call.index, aux.prev))
       => /\ Len(aux.cursors) = Len(aux.prev) - 1
          /\ \A p \in 1 .. Len(aux.cursors) :
               aux.cursors[p] = IF p - 1 < aux.call.index THEN aux.prev[p] ELSE aux.prev[p + 1]
  /\ aux.call.op = "clearCursors" => aux.cursors = <<>>
\* the middle one of three different cursors was removed
C32_Witness ==
  /\ aux.call.op = "removeCursor"
  /\ aux.call.index = 1
  /\ Len(aux.prev) = 3
  /\ aux.prev[1] # aux.prev[2] /\ aux.prev[2] # aux.prev[3] /\ aux.prev[1] # aux.prev[3]
  /\ aux.cursors = <<aux.prev[1], aux.prev[3]>>

\* C33: updateCursor(i, update) with 0 <= i < length replaces in the element at position
\* i only the fields present in update, keeps its other fields, and leaves every other
\* element and the list length unchanged.
C33_UpdateTouchesOneElement ==
  (aux.call.op = "updateCursor" /\ ~OutOfRange(aux.call.index, aux.prev))
    => /\ Len(aux.cursors) = Len(aux.prev)
       /\ \A p \in 1 .. Len(aux.prev) :
            IF p - 1 = aux.call.index
            THEN /\ DOMAIN aux.cursors[p] = DOMAIN aux.prev[p] \cup DOMAIN aux.call.arg
                 /\ \A k \in DOMAIN aux.call.arg : aux.cursors[p][k] = aux.call.arg[k]
                 /\ \A k \in DOMAIN aux.prev[p] \ DOMAIN aux.call.arg :
                      aux.cursors[p][k] = aux.prev[p][k]
            ELSE aux.cursors[p] = aux.prev[p]
\* one field of the second of two cursors was changed
C33_Witness ==
  /\ aux.call.op = "updateCursor"
  /\ aux.call.index = 1
  /\ DOMAIN aux.call.arg = {"color"}
  /\ Len(aux.prev) >= 2
  /\ aux.cursors[2].color # aux.prev[2].color
  /\ aux.cursors[2].follow = aux.prev[2].follow
  /\ aux.cursors[1] = aux.prev[1]

-----------------------------------------------------------------------------
(* Properties of overlapping loads and of the lifecycle, under SpecHook and SpecComp *)

\* C34: in every state where at least one load call issued on a binding has not yet
\* settled, isLoading is true, also when two load calls overlap and one of them has
\* already settled.
C34_LoadingWhilePending ==
  (phase = "mounted" /\ pending # {}) => hook.isLoading

\* C35: between the construction of the engine instance and the unmount of the binding
\* on an unchanged container, the lifecycle effect never invokes the engine's clear, for
\* any sequence of re-renders, including re-renders that pass a new options object.
C35_NoCleanupBeforeUnmount ==
  (phase = "mounted" /\ ~ghost.handleChanged)
    => \A c \in Containers : engines[c].cleanupCalls = 0

\* C36: after the component is unmounted, the binding invokes no further engine method
\* and the component invokes neither onLoad nor onError, also when a load was in flight
\* at unmount and settles afterwards.
C36_QuietAfterUnmount ==
  [][phase = "gone"
       => /\ engines' = engines
          /\ comp'.onLoadCalls = comp.onLoadCalls
          /\ comp'.onErrorCalls = comp.onErrorCalls]_vars

\* C37: for one load failure the component invokes onError at most twice, once from the
\* catch block of the load and once from the effect that observes the error state,
\* whatever re-renders follow while the error state is unchanged, including re-renders
\* that supply an onError function of a new identity.
OneLoadFailure ==
  /\ Len(EngineLoads) = 1
  /\ pending = {}
  /\ ~ghost.settled.resolved
  /\ \A i \in DOMAIN ctorCalls : ctorCalls[i].thrown = NoError
C37_OnErrorAtMostTwice ==
  OneLoadFailure
    => /\ Len(comp.onErrorCalls) <= 2
       /\ \A i, j \in DOMAIN comp.onErrorCalls :
            (i # j) => comp.onErrorCalls[i].from # comp.onErrorCalls[j].from

\* C38: a musicXML with no non-whitespace content (absent, empty, or whitespace only) is
\* treated as absent: nothing parsed from it is ever submitted to the engine, and when a
\* non-empty file is supplied with it the file is loaded.
C38_BlankMusicXMLIsAbsent ==
  /\ \A i \in DOMAIN EngineLoads :
       EngineLoads[i].src.kind = "Document" => HasContent(EngineLoads[i].src)
  /\ (JustMounted /\ hook.osmd # NullInst /\ ~HasContent(comp.musicXML)
        /\ comp.file \notin EmptyProps)
       => EngineLoads = <<LoadCall(comp.file)>>

====
